---- MODULE Spec2Model ----
(***************************************************************************)
(* setupext.janitor.CleanCommand: the extended distutils "clean" command.  *)
(* Strings are sequences of one-character strings, so that the substring   *)
(* test, the suffix tests and os.path.join are computed, not assumed.      *)
(* The filesystem is a set of resolved paths (sequences of entry names     *)
(* below the current directory, <<>> being the current directory itself).  *)
(***************************************************************************)
EXTENDS Integers, Sequences, FiniteSets, TLC

\* ---------------------------------------------------------------- bounds
MaxRuns == 2        \* invocations of the command in a row
MaxEntries == 3     \* entries of the initial filesystem below the cwd
MaxCommands == 2    \* commands with "dist_dir" relevance in the registry

\* ---------------------------------------------------------------- strings
None == <<"None">>          \* Python None (not a string of characters)
NoAttr == <<"NoAttr">>      \* getattr default: the attribute is missing
Missing == <<"Missing">>    \* the sibling command is not registered

curdir == <<".">>
s_empty == <<>>
s_dist == <<"d", "i", "s", "t">>
s_dotdist == <<".", "/", "d", "i", "s", "t">>
s_venv == <<"v", "e", "n", "v">>
s_build == <<"b", "u", "i", "l", "d">>
s_egg_info_sfx == <<".", "e", "g", "g", "-", "i", "n", "f", "o">>
s_egg_sfx == <<".", "e", "g", "g">>

n_a_egg_info == <<"a", ".", "e", "g", "g", "-", "i", "n", "f", "o">>
n_a_egg == <<"a", ".", "e", "g", "g">>
n_egg == <<"e", "g", "g">>

c_sdist == <<"s", "d", "i", "s", "t">>
c_bdist == <<"b", "d", "i", "s", "t">>
c_rotate == <<"r", "o", "t", "a", "t", "e">>

\* name.endswith(suffix)
EndsWith(s, suffix) ==
    /\ Len(s) >= Len(suffix)
    /\ SubSeq(s, Len(s) - Len(suffix) + 1, Len(s)) = suffix

\* 'sub' in s
Contains(sub, s) ==
    \E i \in 1..(Len(s) - Len(sub) + 1) : SubSeq(s, i, i + Len(sub) - 1) = sub

\* os.path.join(a, p) for POSIX paths
PathJoin(a, p) ==
    IF Len(p) > 0 /\ p[1] = "/" THEN p
    ELSE IF a = <<>> \/ a[Len(a)] = "/" THEN a \o p
    ELSE a \o <<"/">> \o p

\* the components of a path string, split at "/"
RECURSIVE Split(_)
Split(s) ==
    IF \A i \in 1..Len(s) : s[i] # "/" THEN <<s>>
    ELSE LET k == CHOOSE i \in 1..Len(s) :
                      s[i] = "/" /\ \A j \in 1..(i - 1) : s[j] # "/"
         IN  <<SubSeq(s, 1, k - 1)>> \o Split(SubSeq(s, k + 1, Len(s)))

RECURSIVE DropDots(_)
DropDots(comps) ==
    IF comps = <<>> THEN <<>>
    ELSE IF Head(comps) = <<>> \/ Head(comps) = curdir
         THEN DropDots(Tail(comps))
         ELSE <<Head(comps)>> \o DropDots(Tail(comps))

\* what the operating system resolves a relative path string to
Resolve(s) == DropDots(Split(s))

IsPrefix(p, q) == Len(p) <= Len(q) /\ SubSeq(q, 1, Len(p)) = p

\* os.path.exists(s)
Exists(f, s) == s # <<>> /\ Resolve(s) \in f

\* os.listdir(s) raises: s is missing or is not a directory
ListDirFails(f, reg, s) == ~Exists(f, s) \/ Resolve(s) \in reg

\* os.listdir(s): the names of the entries directly inside s
ListDir(f, s) ==
    {q[Len(q)] : q \in {r \in f : Len(r) = Len(Resolve(s)) + 1
                                    /\ IsPrefix(Resolve(s), r)}}

\* dir_util.remove_tree raises: the target is a regular file
RemoveTreeFails(reg, s, dry) == ~dry /\ Resolve(s) \in reg

RemoveTreeKeepsChildren(f, s, dry) ==
    IF dry THEN f ELSE f \ {Resolve(s)}

RemoveTreeIgnoresDryRun(f, s, dry) ==
    {q \in f : ~IsPrefix(Resolve(s), q)}

\* dir_util.remove_tree(s, dry_run=dry): the tree below s is gone
RemoveTree(f, s, dry) ==
    IF dry THEN f ELSE {q \in f : ~IsPrefix(Resolve(s), q)}

\* ---------------------------------------------------------------- command
\* a truthy attribute value: neither None, nor missing, nor ''
Truthy(v) == v # None /\ v # NoAttr /\ v # <<>>

\* initialize_options: the defaults of a freshly constructed command
InitialOptions ==
    [dist |-> FALSE, eggs |-> FALSE, egg_base |-> None,
     environment |-> FALSE, virtualenv_dir |-> None]

\* the host's option parser: every option given on the command line is set
ParsedOptions(o, av) ==
    [dist |-> IF av.dist THEN TRUE ELSE o.dist,
     eggs |-> IF av.eggs THEN TRUE ELSE o.eggs,
     egg_base |-> IF av.egg_base # None THEN av.egg_base ELSE o.egg_base,
     environment |-> IF av.environment THEN TRUE ELSE o.environment,
     virtualenv_dir |-> IF av.virtualenv_dir # None THEN av.virtualenv_dir
                        ELSE o.virtualenv_dir]

FinalEggBaseSiblingFirst(own, sibling) ==
    IF sibling # Missing /\ sibling # None THEN sibling
    ELSE IF own = None THEN curdir ELSE own

\* set_undefined_options('egg_info', ('egg_base', 'egg_base')) with the
\* DistutilsError of a missing sibling swallowed, then the os.curdir default
FinalEggBase(own, sibling) ==
    LET adopted == IF sibling = Missing THEN own
                   ELSE IF own = None THEN sibling ELSE own
    IN  IF adopted = None THEN curdir ELSE adopted

\* os.environ.get('VIRTUAL_ENV', None) is evaluated
ReadsEnviron(environment, own) == environment /\ own = None

FinalVirtualenvDirEnvFirst(environment, own, env) ==
    IF environment /\ env # None THEN env ELSE own

FinalVirtualenvDir(environment, own, env) ==
    IF ReadsEnviron(environment, own) THEN env ELSE own

DistDirsAnyName(cmds) ==
    {c.dist_dir : c \in {d \in cmds : Truthy(d.dist_dir)}}

\* the dist_dir of every registered command whose name contains 'dist'
DistDirs(cmds) ==
    {c.dist_dir : c \in {d \in cmds : /\ Contains(s_dist, d.name)
                                      /\ Truthy(d.dist_dir)}}

EggDirsJoinAll(f, base) ==
    {PathJoin(base, n) : n \in {m \in ListDir(f, base) :
                                    EndsWith(m, s_egg_info_sfx)}}
    \cup {PathJoin(base, n) : n \in {m \in ListDir(f, curdir) :
                                    EndsWith(m, s_egg_sfx)}}

\* the .egg-info entries of egg_base and the .egg entries of the cwd
EggDirs(f, base) ==
    {PathJoin(base, n) : n \in {m \in ListDir(f, base) :
                                    EndsWith(m, s_egg_info_sfx)}}
    \cup {m \in ListDir(f, curdir) : EndsWith(m, s_egg_sfx)}

EnvDirsUnguarded(environment, vdir) ==
    IF Truthy(vdir) THEN {vdir} ELSE {}

\* the virtual environment directory, when asked for and known
EnvDirs(environment, vdir) ==
    IF environment /\ Truthy(vdir) THEN {vdir} ELSE {}

\* dir_names as run() accumulates it before the removal loop
DirNames(o, cmds, f) ==
    (IF o.dist THEN DistDirs(cmds) ELSE {})
    \cup (IF o.eggs THEN EggDirs(f, o.egg_base) ELSE {})
    \cup EnvDirs(o.environment, o.virtualenv_dir)

\* the os.listdir calls of run() raise
CollectFails(o, f, reg) ==
    o.eggs /\ (ListDirFails(f, reg, o.egg_base) \/ ListDirFails(f, reg, curdir))

\* _CleanCommand.run: the build directory goes unless dry_run is set
BaseCleanRun(f, dry) ==
    IF Exists(f, s_build) THEN RemoveTree(f, s_build, dry) ELSE f

\* every order in which a set can be iterated
Orders(S) ==
    {s \in [1..Cardinality(S) -> S] :
        \A i, j \in 1..Cardinality(S) : s[i] = s[j] => i = j}

RECURSIVE RunLoopStopsAtMissing(_, _, _, _, _)
RunLoopStopsAtMissing(order, f, reg, dry, lg) ==
    IF order = <<>> THEN [fs |-> f, log |-> lg, failed |-> FALSE]
    ELSE LET d == Head(order)
         IN  IF Exists(f, d)
             THEN IF RemoveTreeFails(reg, d, dry)
                  THEN [fs |-> f, log |-> lg, failed |-> TRUE]
                  ELSE RunLoopStopsAtMissing(Tail(order), RemoveTree(f, d, dry),
                                   reg, dry, Append(lg, <<"removing", d>>))
             ELSE [fs |-> f, log |-> Append(lg, <<"skipping", d>>),
                   failed |-> FALSE]

\* the loop over dir_names: remove what exists, announce what does not;
\* an error of remove_tree ends the loop
RECURSIVE RunLoop(_, _, _, _, _)
RunLoop(order, f, reg, dry, lg) ==
    IF order = <<>> THEN [fs |-> f, log |-> lg, failed |-> FALSE]
    ELSE LET d == Head(order)
         IN  IF Exists(f, d)
             THEN IF RemoveTreeFails(reg, d, dry)
                  THEN [fs |-> f, log |-> lg, failed |-> TRUE]
                  ELSE RunLoop(Tail(order), RemoveTree(f, d, dry), reg, dry,
                               Append(lg, <<"removing", d>>))
             ELSE RunLoop(Tail(order), f, reg, dry,
                          Append(lg, <<"skipping", d>>))

\* ---------------------------------------------------------------- state
VARIABLES
    argv,        \* the options given on the command line (and --dry-run)
    environ,     \* the value of VIRTUAL_ENV, None when unset
    commands,    \* the registered commands with their dist_dir attribute
    egg_info,    \* the sibling egg_info command's egg_base, Missing if none
    fs,          \* the paths that exist
    files,       \* those of them that are regular files
    self,        \* the option attributes of the command object
    pc,          \* "constructed", "parsed", "finalized", "done", "failed"
    dir_names,   \* the target set of the last run()
    log,         \* what the last run() announced, in order
    fs0,         \* the filesystem when the invocation began
    env_reads,   \* how often this invocation read VIRTUAL_ENV
    runs         \* the number of the invocation

vars == <<argv, environ, commands, egg_info, fs, files, self, pc, dir_names,
          log, fs0, env_reads, runs>>

host == <<argv, environ, commands, egg_info>>

\* ---------------------------------------------------------------- inputs
FsUniverse ==
    {<<s_dist>>, <<s_dist, n_a_egg_info>>, <<s_dist, n_a_egg>>,
     <<n_a_egg_info>>, <<n_a_egg>>, <<n_egg>>, <<s_venv>>, <<s_build>>}

\* a filesystem: the cwd, and with every entry the directory it is in
Filesystems ==
    {S \cup {<<>>} : S \in {T \in SUBSET FsUniverse :
        /\ Cardinality(T) <= MaxEntries
        /\ \A q \in T : Len(q) > 1 => SubSeq(q, 1, Len(q) - 1) \in T}}

\* an .egg of the cwd is a directory or a zipped file
FileCandidates == {<<n_a_egg>>}

CommandUniverse ==
    {[name |-> c_sdist, dist_dir |-> s_dist],
     [name |-> c_bdist, dist_dir |-> s_dist],
     [name |-> c_bdist, dist_dir |-> s_dotdist],
     [name |-> c_bdist, dist_dir |-> NoAttr],
     [name |-> c_bdist, dist_dir |-> s_empty],
     [name |-> c_rotate, dist_dir |-> s_venv]}

Registries ==
    {R \in SUBSET CommandUniverse :
        /\ Cardinality(R) <= MaxCommands
        /\ \A c, d \in R : c.name = d.name => c = d}

ArgvOver(EggBases, VenvDirs) ==
    [dist : BOOLEAN, eggs : BOOLEAN, environment : BOOLEAN,
     dry_run : BOOLEAN, egg_base : EggBases, virtualenv_dir : VenvDirs]

InitOver(Argvs, Environs, Siblings, Regs, Fss) ==
    /\ argv \in Argvs
    /\ environ \in Environs
    /\ egg_info \in Siblings
    /\ commands \in Regs
    /\ fs \in Fss
    /\ files \in SUBSET (fs \cap FileCandidates)
    /\ self = InitialOptions
    /\ pc = "constructed"
    /\ dir_names = {}
    /\ log = <<>>
    /\ fs0 = fs
    /\ env_reads = 0
    /\ runs = 1

\* every filesystem and registry, the options that name a directory
Init ==
    InitOver(ArgvOver({None, s_dist}, {None, s_venv}), {None, s_venv},
             {Missing}, Registries, Filesystems)

\* every way of giving egg_base and virtualenv_dir, two filesystems
InitOptions ==
    InitOver(ArgvOver({None, s_dist, s_empty}, {None, s_venv, s_empty}),
             {None, s_venv, s_dist, s_empty}, {Missing, None, s_dist, curdir},
             {{}, {[name |-> c_sdist, dist_dir |-> s_dist]}},
             {{<<>>, <<s_dist>>, <<s_dist, n_a_egg_info>>, <<n_a_egg_info>>,
               <<s_venv>>},
              {<<>>, <<n_a_egg>>}})

\* ---------------------------------------------------------------- actions
\* the host sets the attributes of the options given on the command line
ParseCommandLine ==
    /\ pc = "constructed"
    /\ self' = ParsedOptions(self, argv)
    /\ pc' = "parsed"
    /\ UNCHANGED <<host, fs, files, dir_names, log, fs0, env_reads, runs>>

FinalizeOptions ==
    /\ pc = "parsed"
    /\ self' = [self EXCEPT
           !.egg_base = FinalEggBase(self.egg_base, egg_info),
           !.virtualenv_dir = FinalVirtualenvDir(self.environment,
                                                 self.virtualenv_dir, environ)]
    /\ env_reads' = IF ReadsEnviron(self.environment, self.virtualenv_dir)
                    THEN env_reads + 1 ELSE env_reads
    /\ pc' = "finalized"
    /\ UNCHANGED <<host, fs, files, dir_names, log, fs0, runs>>

Run ==
    /\ pc = "finalized"
    /\ LET based == BaseCleanRun(fs, argv.dry_run)
       IN  IF CollectFails(self, based, files)
           THEN /\ fs' = based
                /\ dir_names' = IF self.dist THEN DistDirs(commands) ELSE {}
                /\ log' = <<>>
                /\ pc' = "failed"
           ELSE /\ dir_names' = DirNames(self, commands, based)
                /\ \E order \in Orders(dir_names') :
                       LET r == RunLoop(order, based, files, argv.dry_run, <<>>)
                       IN  /\ fs' = r.fs
                           /\ log' = r.log
                           /\ pc' = IF r.failed THEN "failed" ELSE "done"
    /\ files' = files \cap fs'
    /\ UNCHANGED <<host, self, fs0, env_reads, runs>>

\* the same command line is run once more: a new command object
Reinvoke ==
    /\ pc = "done"
    /\ runs < MaxRuns
    /\ runs' = runs + 1
    /\ self' = InitialOptions
    /\ pc' = "constructed"
    /\ dir_names' = {}
    /\ log' = <<>>
    /\ fs0' = fs
    /\ env_reads' = 0
    /\ UNCHANGED <<host, fs, files>>

Next == ParseCommandLine \/ FinalizeOptions \/ Run \/ Reinvoke

Spec == Init /\ [][Next]_vars

SpecOptions == InitOptions /\ [][Next]_vars

\* ---------------------------------------------------------------- reports
Removed == {log[i][2] : i \in {j \in 1..Len(log) : log[j][1] = "removing"}}
Skipped == {log[i][2] : i \in {j \in 1..Len(log) : log[j][1] = "skipping"}}

TypeOK ==
    /\ pc \in {"constructed", "parsed", "finalized", "done", "failed"}
    /\ runs \in 1..MaxRuns
    /\ files \subseteq fs

\* the filesystem the removal loop starts from: only the base clean acted
LoopFs ==
    IF argv.dry_run THEN fs0
    ELSE {q \in fs0 : q = <<>> \/ q[1] # s_build}

Finished == pc \in {"done", "failed"}

NoFlag == ~argv.dist /\ ~argv.eggs /\ ~argv.environment

\* the number of announcements about the target d
Mentions(d) == Cardinality({i \in 1..Len(log) : log[i][2] = d})

s_dist_a_egg_info ==
    <<"d", "i", "s", "t", "/", "a", ".", "e", "g", "g", "-", "i", "n", "f", "o">>
s_dot_a_egg_info ==
    <<".", "/", "a", ".", "e", "g", "g", "-", "i", "n", "f", "o">>

\* ---------------------------------------------------------------- claims
\* C1: with dist, eggs and environment all false run() schedules nothing,
\* calls remove_tree for nothing and leaves the filesystem as the base
\* clean left it, whatever egg_base, virtualenv_dir, VIRTUAL_ENV, the
\* registered commands and the filesystem are.
C1_NoFlagsNoRemoval ==
    (Finished /\ NoFlag) =>
        /\ pc = "done"
        /\ dir_names = {}
        /\ log = <<>>
        /\ fs = LoopFs

C1_Witness ==
    /\ pc = "done" /\ NoFlag /\ ~argv.dry_run
    /\ argv.virtualenv_dir = s_venv /\ <<s_venv>> \in fs
    /\ <<s_dist>> \in fs /\ <<n_a_egg>> \in fs
    /\ \E c \in commands : c.dist_dir = s_dist

\* C2: under dry_run the filesystem never changes, whatever flags are set
\* and whatever targets exist.
C2_DryRunKeepsFilesystem ==
    argv.dry_run => (fs = fs0 /\ files = fs0 \cap files)

C2_Witness ==
    /\ pc = "done" /\ argv.dry_run
    /\ argv.dist /\ argv.eggs /\ argv.environment
    /\ Cardinality(Removed) >= 2
    /\ \A d \in Removed : Exists(fs, d)

\* what run() reports under dry_run from the filesystem the invocation
\* began with: nothing is removed, so every target that exists at the start
\* is reported as removed and every other one as skipped
DryRemoved == {d \in DirNames(self, commands, fs0) : Exists(fs0, d)}
DrySkipped == DirNames(self, commands, fs0) \ DryRemoved

\* C3: run() reports the same removed and the same skipped targets with
\* and without dry_run, also when one target lies inside another.
C3_DryRunReportsRealRun ==
    pc = "done" => (Removed = DryRemoved /\ Skipped = DrySkipped)

\* C4: a target that is absent when run() reaches it raises no error, is
\* announced as skipped exactly once, and every other target is still
\* removed, wherever the absent target comes in the iteration order (in
\* runs where no remove_tree or listdir call raises).
C4_AbsentTargetSkipped ==
    /\ pc = "failed" =>
           \/ CollectFails(self, LoopFs, fs0 \cap files)
           \/ \E d \in dir_names : Resolve(d) \in files
    /\ pc = "done" =>
           /\ \A d \in dir_names :
                  /\ Mentions(d) = 1
                  /\ ~Exists(LoopFs, d) => d \in Skipped
                  /\ d \in Skipped => (~Exists(fs, d) \/ argv.dry_run)
           /\ ~argv.dry_run => \A d \in dir_names : ~Exists(fs, d)

C4_Witness ==
    /\ pc = "done" /\ ~argv.dry_run
    /\ Len(log) = 3
    /\ log[1][1] = "removing" /\ log[3][1] = "removing"
    /\ log[2][1] = "skipping" /\ ~Exists(fs0, log[2][2])
    /\ \A q \in fs0 : ~IsPrefix(Resolve(log[2][2]), q)

\* C5: after a first run without dry_run that completed without error, a
\* second run of the same command line raises no error, removes nothing and
\* skips every one of its targets.
C5_SecondRunSkipsAll ==
    (runs = 2 /\ ~argv.dry_run /\ Finished) =>
        /\ pc = "done"
        /\ Removed = {}
        /\ Skipped = dir_names

\* the directory the command line and the environment resolve to
ResolvedVirtualenvDir ==
    IF argv.virtualenv_dir # None THEN argv.virtualenv_dir ELSE environ

\* C6: the virtual environment directory is scheduled exactly when
\* environment is set and the resolved directory (the explicit one, else
\* VIRTUAL_ENV) is non-empty, and VIRTUAL_ENV is read only when environment
\* is set and no directory was given.
C6_EnvironmentTarget ==
    /\ env_reads = IF /\ pc \in {"finalized", "done", "failed"}
                      /\ argv.environment /\ argv.virtualenv_dir = None
                   THEN 1 ELSE 0
    /\ pc = "done" =>
           dir_names =
               (IF argv.dist THEN DistDirs(commands) ELSE {})
               \cup (IF argv.eggs THEN EggDirs(LoopFs, self.egg_base) ELSE {})
               \cup (IF /\ argv.environment
                        /\ ResolvedVirtualenvDir # None
                        /\ ResolvedVirtualenvDir # <<>>
                     THEN {ResolvedVirtualenvDir} ELSE {})

C6_Witness ==
    /\ pc = "done" /\ argv.environment /\ ~argv.dist /\ ~argv.eggs
    /\ argv.virtualenv_dir = None /\ environ = s_venv
    /\ dir_names = {s_venv}

\* C7: with dist set, the dist targets are the non-empty dist_dir values of
\* the registered commands whose name contains "dist" (sdist and bdist
\* here, not rotate), one target per distinct value.
C7_DistTargets ==
    (pc = "done" /\ argv.dist) =>
        dir_names =
            {c.dist_dir : c \in {d \in commands :
                /\ d.name \in {c_sdist, c_bdist}
                /\ d.dist_dir \in {s_dist, s_dotdist}}}
            \cup (IF argv.eggs THEN EggDirs(LoopFs, self.egg_base) ELSE {})
            \cup EnvDirs(argv.environment, self.virtualenv_dir)

C7_Witness ==
    /\ pc = "done" /\ argv.dist /\ ~argv.eggs /\ ~argv.environment
    /\ [name |-> c_sdist, dist_dir |-> s_dist] \in commands
    /\ [name |-> c_bdist, dist_dir |-> s_dist] \in commands
    /\ dir_names = {s_dist}

\* C8: with eggs set, the egg targets are egg_base joined with each
\* *.egg-info entry of egg_base, and the bare name of each *.egg entry of
\* the current directory; nothing else of either directory.
C8_EggTargets ==
    (pc = "done" /\ argv.eggs) =>
        dir_names =
            (IF argv.egg_base = s_dist /\ <<s_dist, n_a_egg_info>> \in LoopFs
             THEN {s_dist_a_egg_info} ELSE {})
            \cup (IF argv.egg_base = None /\ <<n_a_egg_info>> \in LoopFs
                  THEN {s_dot_a_egg_info} ELSE {})
            \cup (IF <<n_a_egg>> \in LoopFs THEN {n_a_egg} ELSE {})
            \cup (IF argv.dist THEN DistDirs(commands) ELSE {})
            \cup EnvDirs(argv.environment, self.virtualenv_dir)

C8_Witness ==
    /\ pc = "done" /\ argv.eggs /\ ~argv.dist /\ ~argv.environment
    /\ argv.egg_base = s_dist
    /\ {<<s_dist, n_a_egg_info>>, <<n_a_egg>>} \subseteq fs0
    /\ dir_names = {s_dist_a_egg_info, n_a_egg}

\* C9: after finalize_options egg_base is set: the explicit --egg-base,
\* else the egg_base of the egg_info command when there is one and it has
\* one, else "."; a missing egg_info command is not an error.
C9_EggBaseFinalized ==
    pc \in {"finalized", "done", "failed"} =>
        /\ self.egg_base # None
        /\ self.egg_base =
               IF argv.egg_base # None THEN argv.egg_base
               ELSE IF egg_info # Missing /\ egg_info # None THEN egg_info
               ELSE curdir

C9_Witness ==
    /\ pc = "finalized" /\ argv.egg_base = None /\ egg_info = Missing
    /\ self.egg_base = curdir

\* C10: the target set is computed before the first removal, every target
\* is processed exactly once, and the final filesystem does not depend on
\* the iteration order: it is the starting one without the trees of the
\* targets.
C10_OrderIrrelevant ==
    pc = "done" =>
        /\ dir_names = DirNames(self, commands, LoopFs)
        /\ Len(log) = Cardinality(dir_names)
        /\ \A d \in dir_names : Mentions(d) = 1
        /\ ~argv.dry_run =>
               fs = {q \in LoopFs :
                        \A d \in dir_names : ~IsPrefix(Resolve(d), q)}

C10_Witness ==
    /\ pc = "done" /\ ~argv.dry_run
    /\ Len(log) = 2
    /\ log[1] = <<"removing", s_dist_a_egg_info>>
    /\ log[2] = <<"removing", s_dist>>

====
